---- MODULE Spec2Model ----
(***************************************************************************)
(* Model of the submission uploader (uwidcit/sub-uploader):               *)
(*   src/uploader.py  - the command line uploader (main)                   *)
(*   src/app.py       - the graphical uploader (FileUploaderApp)           *)
(* Strings are TLA+ strings, read as sequences of characters with Len,     *)
(* SubSeq and \o, so the text functions are computed character by          *)
(* character as the Python code computes them.                             *)
(***************************************************************************)
EXTENDS Integers, Sequences, FiniteSets, TLC

(***************************************************************************)
(* Python values                                                           *)
(***************************************************************************)
\* Python's None where a string is expected (a text no file or cell holds).
None == "<None>"

\* Python's None where a row index is expected.
NoRow == -1

\* Truth value of an optional string: None and '' are false.
Truthy(s) == s # None /\ s # ""

(***************************************************************************)
(* Characters and the str methods the code uses                            *)
(***************************************************************************)
Char(s, i) == SubSeq(s, i, i)

Min(S) == CHOOSE p \in S : \A q \in S : p <= q

Max(S) == CHOOSE p \in S : \A q \in S : p >= q

UpperLetters ==
  {"A", "B", "C", "D", "E", "F", "G", "H", "I", "J", "K", "L", "M",
   "N", "O", "P", "Q", "R", "S", "T", "U", "V", "W", "X", "Y", "Z"}

LowerLetters ==
  {"a", "b", "c", "d", "e", "f", "g", "h", "i", "j", "k", "l", "m",
   "n", "o", "p", "q", "r", "s", "t", "u", "v", "w", "x", "y", "z"}

\* the lower-case letter of every upper-case letter
LowerOf ==
  "A" :> "a" @@ "B" :> "b" @@ "C" :> "c" @@ "D" :> "d" @@ "E" :> "e" @@ "F" :> "f" @@ "G" :> "g" @@ "H" :> "h" @@ "I" :> "i"
  @@ "J" :> "j" @@ "K" :> "k" @@ "L" :> "l" @@ "M" :> "m" @@ "N" :> "n" @@ "O" :> "o" @@ "P" :> "p" @@ "Q" :> "q" @@ "R" :> "r"
  @@ "S" :> "s" @@ "T" :> "t" @@ "U" :> "u" @@ "V" :> "v" @@ "W" :> "w" @@ "X" :> "x" @@ "Y" :> "y" @@ "Z" :> "z"

Digits == {"0", "1", "2", "3", "4", "5", "6", "7", "8", "9"}

Whitespace == {" ", "\t"}

IsUpper(c) == c \in UpperLetters

IsLower(c) == c \in LowerLetters

\* \d of the re module
IsDigit(c) == c \in Digits

\* \s of the re module
IsSpace(c) == c \in Whitespace

\* \w of the re module
IsWord(c) == IsUpper(c) \/ IsLower(c) \/ IsDigit(c) \/ c = "_"

LowerChar(c) == IF IsUpper(c) THEN LowerOf[c] ELSE c

\* str.lower()
RECURSIVE Lower(_)
Lower(s) == IF s = "" THEN "" ELSE LowerChar(Head(s)) \o Lower(Tail(s))

RECURSIVE LStrip(_)
LStrip(s) == IF s # "" /\ IsSpace(Head(s)) THEN LStrip(Tail(s)) ELSE s

RECURSIVE RStrip(_)
RStrip(s) ==
  IF s # "" /\ IsSpace(Char(s, Len(s))) THEN RStrip(SubSeq(s, 1, Len(s) - 1)) ELSE s

\* str.strip()
Strip(s) == RStrip(LStrip(s))

\* s[p:p+len(lit)] == lit, with p counted from 1
MatchesAt(s, p, lit) ==
  /\ p >= 1
  /\ p + Len(lit) - 1 <= Len(s)
  /\ SubSeq(s, p, p + Len(lit) - 1) = lit

\* str.find(), counted from 1; 0 when absent
Find(s, lit) ==
  LET S == {p \in 1..(Len(s) + 1) : MatchesAt(s, p, lit)}
  IN  IF S = {} THEN 0 ELSE CHOOSE p \in S : \A q \in S : p <= q

\* lit in s
Contains(s, lit) == Find(s, lit) # 0

\* str.replace(lit, '') for a non-empty lit
RECURSIVE RemoveAll(_, _)
RemoveAll(s, lit) ==
  LET p == Find(s, lit)
  IN  IF p = 0 THEN s
      ELSE SubSeq(s, 1, p - 1) \o RemoveAll(SubSeq(s, p + Len(lit), Len(s)), lit)

\* str.split() without argument: the maximal runs of non-whitespace
RECURSIVE SplitWords(_)
SplitWords(s) ==
  LET t == LStrip(s)
      E == {p \in 1..Len(t) : IsSpace(Char(t, p))}
      e == IF E = {} THEN Len(t) + 1 ELSE CHOOSE p \in E : \A q \in E : p <= q
  IN  IF t = "" THEN << >>
      ELSE << SubSeq(t, 1, e - 1) >> \o SplitWords(SubSeq(t, e, Len(t)))

\* ' '.join(parts)
RECURSIVE JoinSpace(_)
JoinSpace(parts) ==
  IF parts = << >> THEN ""
  ELSE IF Len(parts) = 1 THEN parts[1]
  ELSE parts[1] \o " " \o JoinSpace(Tail(parts))

\* \w of the patterns
WordChars == UpperLetters \cup LowerLetters \cup Digits \cup {"_"}

\* the length of the longest prefix of s[p:] whose characters are all in cls
RunLen(s, p, cls) ==
  LET K == {k \in 0..(IF p <= Len(s) THEN Len(s) - p + 1 ELSE 0) :
              \A i \in p..(p + k - 1) : Char(s, i) \in cls}
  IN  Max(K)

AllDigits(s) == \A i \in 1..Len(s) : IsDigit(Char(s, i))

(***************************************************************************)
(* Identity extraction                                                     *)
(***************************************************************************)
Marker == "assignsubmission_file_"

extract_content_after_file(fname) ==
  IF Contains(fname, Marker) THEN RemoveAll(fname, Marker) ELSE fname

extract_student_name_from_filename(fname) ==
  LET u == Find(fname, "_")
      underscores == Cardinality({p \in 1..Len(fname) : Char(fname, p) = "_"})
  IN  IF u # 0 /\ underscores + 1 > 2 /\ Contains(fname, "assignsubmission")
        THEN Strip(SubSeq(fname, 1, u - 1))
        ELSE None

\* the institutional prefixes of the fallback pattern
IdPrefixes == {"816", "320", "400"}

extract_student_id(fname) ==
  LET M == {p \in 1..Len(fname) :
              /\ MatchesAt(fname, p, Marker)
              /\ p + Len(Marker) + 9 <= Len(fname)
              /\ AllDigits(SubSeq(fname, p + Len(Marker), p + Len(Marker) + 8))
              /\ Char(fname, p + Len(Marker) + 9) = "_"}
      F == {p \in 1..Len(fname) :
              /\ p + 8 <= Len(fname)
              /\ SubSeq(fname, p, p + 2) \in IdPrefixes
              /\ AllDigits(SubSeq(fname, p + 3, p + 8))}
  IN  IF M # {} THEN SubSeq(fname, Min(M) + Len(Marker), Min(M) + Len(Marker) + 8)
      ELSE IF F # {} THEN SubSeq(fname, Min(F), Min(F) + 8)
      ELSE None

extract_names(fname) ==
  LET u == Find(fname, "_")
      d == RunLen(fname, u + 1, Digits)
      matched == /\ u > 1
                 /\ d >= 1
                 /\ MatchesAt(fname, u + 1 + d, "_" \o Marker)
      name_parts == SplitWords(Strip(SubSeq(fname, 1, u - 1)))
  IN  IF matched /\ Len(name_parts) >= 2
        THEN << name_parts[1], JoinSpace(Tail(name_parts)) >>
      ELSE IF matched /\ Len(name_parts) = 1
        THEN << name_parts[1], None >>
      ELSE << None, None >>

\* re.sub(r'[-\s]+', ' ', s)
RECURSIVE CollapseSeparators(_)
CollapseSeparators(s) ==
  LET k == RunLen(s, 1, Whitespace \cup {"-"})
  IN  IF s = "" THEN ""
      ELSE IF k > 0 THEN " " \o CollapseSeparators(SubSeq(s, k + 1, Len(s)))
      ELSE Head(s) \o CollapseSeparators(Tail(s))

normalize_name(name) ==
  IF ~Truthy(name) THEN "" ELSE CollapseSeparators(Strip(Lower(name)))

(***************************************************************************)
(* Python lists and dicts                                                  *)
(* A list is a sequence; Python's index i is position i + 1.  A dict is    *)
(* the sequence of its (key, value) pairs in insertion order.              *)
(***************************************************************************)
\* list.index(v) as a Python index; NoRow stands for the ValueError
ListIndex(list, v) ==
  LET S == {i \in 1..Len(list) : list[i] = v}
  IN  IF S = {} THEN NoRow ELSE Min(S) - 1

DictHas(d, k) == \E i \in 1..Len(d) : d[i][1] = k

DictGet(d, k) == d[CHOOSE i \in 1..Len(d) : d[i][1] = k][2]

\* d[k] = v: a key already present keeps its place in the iteration order
DictSet(d, k, v) ==
  IF DictHas(d, k)
    THEN [i \in 1..Len(d) |-> IF d[i][1] = k THEN << k, v >> ELSE d[i]]
    ELSE Append(d, << k, v >>)

(***************************************************************************)
(* Matching strategies                                                     *)
(***************************************************************************)
\* a lookup that takes the first containing key without trying the equal key
find_group_by_student_name_loose(student_name, groups) ==
  IF ~Truthy(student_name) \/ groups = << >> THEN None
  ELSE LET normalized_name == Strip(Lower(student_name))
           P == {i \in 1..Len(groups) :
                   \/ Contains(groups[i][1], normalized_name)
                   \/ Contains(normalized_name, groups[i][1])}
       IN  IF P # {} THEN groups[Min(P)][2] ELSE None

find_group_by_student_name(student_name, groups) ==
  IF ~Truthy(student_name) \/ groups = << >> THEN None
  ELSE LET normalized_name == Strip(Lower(student_name))
           P == {i \in 1..Len(groups) :
                   \/ Contains(groups[i][1], normalized_name)
                   \/ Contains(normalized_name, groups[i][1])}
       IN  IF DictHas(groups, normalized_name)
             THEN DictGet(groups, normalized_name)
           ELSE IF P # {} THEN groups[Min(P)][2]
           ELSE None

\* a name match that takes two last names only when they are equal
find_match_by_names_equal_last(first_name, last_name, sheet_first_names, sheet_last_names) ==
  IF ~Truthy(first_name) THEN NoRow
  ELSE IF sheet_first_names = << >> THEN NoRow
  ELSE LET norm_first == normalize_name(first_name)
           norm_last == IF Truthy(last_name) THEN normalize_name(last_name) ELSE ""
           sheet_last_norm(i) ==
             IF i <= Len(sheet_last_names) THEN normalize_name(sheet_last_names[i]) ELSE ""
           H == {i \in 1..Len(sheet_first_names) :
                   /\ normalize_name(sheet_first_names[i]) # ""
                   /\ norm_first = normalize_name(sheet_first_names[i])
                   /\ (norm_last = "" \/ sheet_last_norm(i) = "" \/ norm_last = sheet_last_norm(i))}
       IN  IF H = {} THEN NoRow ELSE Min(H) - 1

find_match_by_names(first_name, last_name, sheet_first_names, sheet_last_names) ==
  IF ~Truthy(first_name) THEN NoRow
  ELSE IF sheet_first_names = << >> THEN NoRow
  ELSE LET norm_first == normalize_name(first_name)
           norm_last == IF Truthy(last_name) THEN normalize_name(last_name) ELSE ""
           sheet_first_norm(i) == normalize_name(sheet_first_names[i])
           sheet_last_norm(i) ==
             IF i <= Len(sheet_last_names) THEN normalize_name(sheet_last_names[i]) ELSE ""
           Exact(i) ==
             /\ sheet_first_norm(i) # ""
             /\ norm_first = sheet_first_norm(i)
             /\ (norm_last = "" \/ sheet_last_norm(i) = "" \/ norm_last = sheet_last_norm(i))
           Partial(i) ==
             /\ sheet_first_norm(i) # ""
             /\ norm_first = sheet_first_norm(i)
             /\ norm_last # ""
             /\ sheet_last_norm(i) # ""
             /\ \/ Contains(sheet_last_norm(i), norm_last)
                \/ Contains(norm_last, sheet_last_norm(i))
           H == {i \in 1..Len(sheet_first_names) :
                   /\ ~(sheet_first_norm(i) = "" /\ sheet_last_norm(i) = "")
                   /\ (Exact(i) \/ Partial(i))}
       IN  IF H = {} THEN NoRow ELSE Min(H) - 1

\* os.path.splitext(name)[0] for a name without directory separators
SplitExtBase(name) ==
  LET D == {p \in 1..Len(name) : Char(name, p) = "."}
  IN  IF D # {} /\ (\E q \in 1..(Max(D) - 1) : Char(name, q) # ".")
        THEN SubSeq(name, 1, Max(D) - 1)
        ELSE name

\* [\s_-] of the group patterns
GroupSeps == Whitespace \cup {"_", "-"}

\* re.finditer(kw + r'[\s_-]*(\w+)', base, re.IGNORECASE) from position p on:
\* the (group(1), group(0)) pairs of the successive matches
KeywordMatches(base, start, kw) ==
  LET low == Lower(base)
      from[p \in 1..(Len(base) + 1)] ==
        LET a == p + Len(kw)
            k == RunLen(base, a, GroupSeps)
            J == {j \in 0..k : a + j <= Len(base) /\ IsWord(Char(base, a + j))}
            b == a + Max(J)
            w == RunLen(base, b, WordChars)
        IN  IF p > Len(base) THEN << >>
            ELSE IF MatchesAt(low, p, kw) /\ J # {}
              THEN << << SubSeq(base, b, b + w - 1), SubSeq(base, p, b + w - 1) >> >>
                     \o from[b + w]
            ELSE from[p + 1]
  IN  from[start]

\* re.finditer(r'(\w*' + kw + r'\w*)', base, re.IGNORECASE) from position p on
WordMatches(base, start, kw) ==
  LET from[p \in 1..(Len(base) + 1)] ==
        LET w == RunLen(base, p, WordChars)
            word == SubSeq(base, p, p + w - 1)
        IN  IF p > Len(base) THEN << >>
            ELSE IF w = 0 THEN from[p + 1]
            ELSE IF Contains(Lower(word), kw) THEN << << word, word >> >> \o from[p + w]
            ELSE from[p + w]
  IN  from[start]

\* the appends of one pattern's matches to potential_groups
RECURSIVE AppendMatches(_)
AppendMatches(ms) ==
  IF ms = << >> THEN << >>
  ELSE (IF ms[1][1] # "" THEN << Strip(ms[1][1]) >> ELSE << >>)
         \o << Strip(ms[1][2]) >> \o AppendMatches(Tail(ms))

\* the normalized candidates find_match_by_group_name derives from a fname
group_candidates(fname) ==
  LET base_name == SplitExtBase(extract_content_after_file(fname))
      potential_groups ==
        AppendMatches(KeywordMatches(base_name, 1, "group"))
          \o AppendMatches(KeywordMatches(base_name, 1, "team"))
          \o AppendMatches(WordMatches(base_name, 1, "group"))
          \o AppendMatches(WordMatches(base_name, 1, "team"))
          \o << base_name >>
  IN  {normalize_name(potential_groups[i]) :
         i \in {j \in 1..Len(potential_groups) : potential_groups[j] # ""}}

\* a comparison that lets a text of any length match by containment
GroupNameHit_any_length(norm_group, norm_sheet_id) ==
  /\ norm_group # ""
  /\ \/ norm_group = norm_sheet_id
     \/ Contains(norm_sheet_id, norm_group)
     \/ Contains(norm_group, norm_sheet_id)

\* the comparison of one candidate with one id cell
GroupNameHit(norm_group, norm_sheet_id) ==
  /\ norm_group # ""
  /\ \/ norm_group = norm_sheet_id
     \/ /\ Len(norm_group) > 2
        /\ Len(norm_sheet_id) > 2
        /\ \/ Contains(norm_sheet_id, norm_group)
           \/ Contains(norm_group, norm_sheet_id)

JaneFile == "Jane Doe_12345_assignsubmission_file_816012345_COMP1600_A1.pdf"

JohnFile == "John Smith_777_assignsubmission_file_GroupX report.pdf"

AnnFile == "Ann Lee_31_assignsubmission_file_816012345_A1.pdf"

\* os.listdir order of the files a folder may hold
FileListing == << AnnFile, JaneFile, JohnFile >>

\* what the extraction functions return for a fname
Extracted(fname) ==
  [file_id |-> extract_student_id(fname),
   names |-> extract_names(fname),
   simple_name |-> extract_student_name_from_filename(fname),
   norm_groups |-> group_candidates(fname)]

\* file names that name a group by a short token after "Group" or "team"
GuessFiles ==
  { "Ann Lee_31_assignsubmission_file_Group A1.pdf",
    "Bo_7_assignsubmission_file_team-x.pdf" }

\* Extracted of the files of FileListing and GuessFiles, computed once
ExtractedTable ==
  {<< f, Extracted(f) >> : f \in {FileListing[i] : i \in 1..Len(FileListing)} \cup GuessFiles}

\* Extracted of a file of FileListing or GuessFiles
Of(fname) == (CHOOSE entry \in ExtractedTable : entry[1] = fname)[2]

find_match_by_group_name(fname, sheet_ids) ==
  IF sheet_ids = << >> \/ fname = "" THEN NoRow
  ELSE LET norm_groups == Of(fname).norm_groups
           H == {i \in 1..Len(sheet_ids) :
                   /\ sheet_ids[i] # ""
                   /\ \E g \in norm_groups : GroupNameHit(g, normalize_name(sheet_ids[i]))}
       IN  IF H = {} THEN NoRow ELSE Min(H) - 1

(***************************************************************************)
(* The files the uploader reads: matches.csv and groups.csv                *)
(* A file is [exists, rows]; rows are the dicts csv.DictReader yields.     *)
(* groups.csv has the header First name,Last name,Group Name, which both   *)
(* uploader.py and app.py recognise: first, last and group are its cells.  *)
(***************************************************************************)
DigitString == "0123456789"

DigitVal(c) == (CHOOSE i \in 1..Len(DigitString) : Char(DigitString, i) = c) - 1

RECURSIVE IntOf(_)
IntOf(s) == IF s = "" THEN 0 ELSE IntOf(SubSeq(s, 1, Len(s) - 1)) * 10 + DigitVal(Char(s, Len(s)))

RECURSIVE Pow10(_)
Pow10(n) == IF n = 0 THEN 1 ELSE 10 * Pow10(n - 1)

\* float(text) on the decimal texts a score cell holds: digits with at most
\* one point and at least one digit; any other text raises ValueError.
\* The value is the pair (digits as an integer, number of decimals).
FloatParses(text) ==
  LET t == Strip(text)
      dot == Find(t, ".")
      whole == IF dot = 0 THEN t ELSE SubSeq(t, 1, dot - 1)
      frac == IF dot = 0 THEN "" ELSE SubSeq(t, dot + 1, Len(t))
  IN  AllDigits(whole) /\ AllDigits(frac) /\ Len(whole) + Len(frac) >= 1

FloatOf(text) ==
  LET t == Strip(text)
      dot == Find(t, ".")
      whole == IF dot = 0 THEN t ELSE SubSeq(t, 1, dot - 1)
      frac == IF dot = 0 THEN "" ELSE SubSeq(t, dot + 1, Len(t))
  IN  << IntOf(whole \o frac), Len(frac) >>

\* similarity >= 0.7
GoodSimilarity(similarity) == similarity[1] * 10 >= 7 * Pow10(similarity[2])

RECURSIVE MatchesFromRows(_, _)
MatchesFromRows(rows, matches) ==
  IF rows = << >> THEN matches
  ELSE LET row == rows[1]
           fname == Strip(row.filename)
           matched_id == Strip(row.matched_id)
       IN  MatchesFromRows(Tail(rows),
             IF /\ fname # ""
                /\ matched_id # ""
                /\ matched_id # "NO MATCH"
                /\ GoodSimilarity(FloatOf(row.similarity_score))
               THEN DictSet(matches, fname, matched_id)
               ELSE matches)

\* a score that float() rejects raises inside the try block that encloses
\* the whole loop, and the handler returns {}
load_matches_from_csv(file) ==
  IF ~file.exists THEN << >>
  ELSE IF \E i \in 1..Len(file.rows) : ~FloatParses(file.rows[i].similarity_score)
    THEN << >>
  ELSE MatchesFromRows(file.rows, << >>)

\* uploader.py; row.first, row.last and row.group are the cells of the
\* columns the header lookup selected
RECURSIVE GroupsFromRows(_, _)
GroupsFromRows(rows, groups) ==
  IF rows = << >> THEN groups
  ELSE LET first_name == Strip(rows[1].first)
           last_name == Strip(rows[1].last)
           group_name == Strip(rows[1].group)
           full_name == Strip(first_name \o " " \o last_name)
           g1 == IF full_name # "" THEN DictSet(groups, Lower(full_name), group_name) ELSE groups
           g2 == IF first_name # "" THEN DictSet(g1, Lower(first_name), group_name) ELSE g1
           g3 == IF last_name # "" THEN DictSet(g2, Lower(last_name), group_name) ELSE g2
       IN  GroupsFromRows(Tail(rows), IF group_name = "" THEN groups ELSE g3)

load_groups_from_csv(file) ==
  IF ~file.exists THEN << >> ELSE GroupsFromRows(file.rows, << >>)

\* app.py
RECURSIVE AppGroupsFromRows(_, _)
AppGroupsFromRows(rows, groups) ==
  IF rows = << >> THEN groups
  ELSE LET first_name == Strip(rows[1].first)
           last_name == Strip(rows[1].last)
           group_name == Strip(rows[1].group)
           full_name == Strip(first_name \o " " \o last_name)
           g1 == DictSet(groups, Lower(full_name), group_name)
           g2 == IF first_name # "" THEN DictSet(g1, Lower(first_name), group_name) ELSE g1
           g3 == IF last_name # "" THEN DictSet(g2, Lower(last_name), group_name) ELSE g2
       IN  AppGroupsFromRows(Tail(rows),
             IF (first_name # "" \/ last_name # "") /\ group_name # "" /\ group_name # " "
               THEN g3 ELSE groups)

app_load_groups_from_csv(file) ==
  IF ~file.exists THEN << >> ELSE AppGroupsFromRows(file.rows, << >>)

(***************************************************************************)
(* The roster sheet as the Sheets API presents it                          *)
(* A column is the sequence of its cells from the start row down; ""       *)
(* is a blank cell.                                                        *)
(***************************************************************************)
RECURSIVE TrimTrailingBlanks(_)
TrimTrailingBlanks(column) ==
  IF column # << >> /\ column[Len(column)] = ""
    THEN TrimTrailingBlanks(SubSeq(column, 1, Len(column) - 1))
    ELSE column

\* values().get(range=column).execute().get('values', []): one list per row
\* down to the last non-blank cell; a blank cell in between gives []
SheetValues(column) ==
  LET t == TrimTrailingBlanks(column)
  IN  [i \in 1..Len(t) |-> IF t[i] = "" THEN << >> ELSE << t[i] >>]

\* the cell at Python offset i of a column, blank beyond its end
CellAt(column, i) == IF i + 1 <= Len(column) THEN column[i + 1] ELSE ""

\* values().update(range=cell at offset i, body=[[value]])
WriteCell(column, i, value) ==
  [j \in 1..Max({Len(column), i + 1}) |->
     IF j = i + 1 THEN value ELSE IF j <= Len(column) THEN column[j] ELSE ""]

\* [item[0] if item else "" for item in values]
PaddedColumn(values) ==
  [i \in 1..Len(values) |-> IF values[i] = << >> THEN "" ELSE values[i][1]]

\* [item[0] for item in values if item]
RECURSIVE NonEmptyItems(_)
NonEmptyItems(values) ==
  IF values = << >> THEN << >>
  ELSE (IF values[1] # << >> THEN << values[1][1] >> ELSE << >>) \o NonEmptyItems(Tail(values))

(***************************************************************************)
(* The report generator (compare_submissions.py)                           *)
(* A similarity is the exact quotient << numerator, denominator >> of the  *)
(* float the code computes: 2.0 * matches / length is one correctly        *)
(* rounded division, so comparing two such floats, or one with 0.3, 0.5,   *)
(* 0.7, 0.8 or 1.0, gives what comparing the quotients gives.              *)
(***************************************************************************)
Letters == UpperLetters \cup LowerLetters

\* re.sub(r'\.(pdf|docx?|txt|rtf)$', '', text) on a lower-cased text
StripExtension(text) ==
  LET E == {e \in {".pdf", ".doc", ".docx", ".txt", ".rtf"} :
              MatchesAt(text, Len(text) - Len(e) + 1, e)}
  IN  IF E = {} THEN text ELSE SubSeq(text, 1, Len(text) - Len(CHOOSE e \in E : TRUE))

\* the length of (a\d+|assignment\s*\d*|project|submission) matched at q, or 0
IndicatorLen(text, q) ==
  LET d == RunLen(text, q + 1, Digits)
      w == RunLen(text, q + 10, Whitespace)
  IN  IF MatchesAt(text, q, "a") /\ d >= 1 THEN 1 + d
      ELSE IF MatchesAt(text, q, "assignment") THEN 10 + w + RunLen(text, q + 10 + w, Digits)
      ELSE IF MatchesAt(text, q, "project") THEN 7
      ELSE IF MatchesAt(text, q, "submission") THEN 10
      ELSE 0

\* re.sub(r'[_\-\s]*(a\d+|assignment\s*\d*|project|submission)[_\-\s]*', '', text)
RemoveIndicators(text) ==
  LET from[p \in 1..(Len(text) + 1)] ==
        LET q == p + RunLen(text, p, GroupSeps)
            k == IndicatorLen(text, q)
        IN  IF p > Len(text) THEN ""
            ELSE IF k > 0 THEN from[q + k + RunLen(text, q + k, GroupSeps)]
            ELSE Char(text, p) \o from[p + 1]
  IN  from[1]

\* re.sub(r'[_\-\s]+', ' ', text)
RECURSIVE StandardizeSeparators(_)
StandardizeSeparators(text) ==
  LET k == RunLen(text, 1, GroupSeps)
  IN  IF text = "" THEN ""
      ELSE IF k > 0 THEN " " \o StandardizeSeparators(SubSeq(text, k + 1, Len(text)))
      ELSE Head(text) \o StandardizeSeparators(Tail(text))

\* re.sub(r'[^\w\s]', '', text)
RECURSIVE RemovePunctuation(_)
RemovePunctuation(text) ==
  IF text = "" THEN ""
  ELSE (IF IsWord(Head(text)) \/ IsSpace(Head(text)) THEN Head(text) ELSE "")
         \o RemovePunctuation(Tail(text))

normalize_text(text) ==
  IF ~Truthy(text) THEN ""
  ELSE Strip(JoinSpace(SplitWords(RemovePunctuation(StandardizeSeparators(
         RemoveIndicators(StripExtension(Lower(text))))))))

\* the length of the match of one of the four patterns of
\* extract_group_names_from_filename at position p of base, or 0
PatternLen(base, p, pattern) ==
  LET letters == RunLen(base, p, Letters)
      run == RunLen(base, p, Letters \cup GroupSeps)
      kw == IF pattern = "team" THEN 4 ELSE 5
      seps == RunLen(base, p + kw, GroupSeps)
      after == RunLen(base, p + kw + seps, Letters)
  IN  IF pattern = "words"
        THEN IF letters = 0 THEN 0
             ELSE Max({k \in 1..run : Char(base, p + k - 1) \in Letters})
      ELSE IF pattern = "numbered"
        THEN IF letters = 0 THEN 0 ELSE letters + RunLen(base, p + letters, Digits)
      ELSE IF MatchesAt(Lower(base), p, pattern) /\ after > 0 THEN kw + seps + after
      ELSE 0

\* re.findall(pattern, base, re.IGNORECASE)
FindAll(base, pattern) ==
  LET from[p \in 1..(Len(base) + 1)] ==
        LET k == PatternLen(base, p, pattern)
        IN  IF p > Len(base) THEN << >>
            ELSE IF k > 0 THEN << SubSeq(base, p, p + k - 1) >> \o from[p + k]
            ELSE from[p + 1]
  IN  from[1]

\* the normalized matches of three or more characters
RECURSIVE NormalizedNames(_)
NormalizedNames(found) ==
  IF found = << >> THEN << >>
  ELSE (IF Len(normalize_text(found[1])) >= 3 THEN << normalize_text(found[1]) >> ELSE << >>)
         \o NormalizedNames(Tail(found))

\* the non-empty names in order, each at its first occurrence
UniqueNames(names) ==
  LET keep == {i \in 1..Len(names) :
                 names[i] # "" /\ \A j \in 1..(i - 1) : names[j] # names[i]}
      pick[i \in 0..Len(names)] ==
        IF i = 0 THEN << >>
        ELSE pick[i - 1] \o (IF i \in keep THEN << names[i] >> ELSE << >>)
  IN  pick[Len(names)]

extract_group_names_from_filename(fname) ==
  LET base_name == SplitExtBase(fname)
  IN  UniqueNames(NormalizedNames(FindAll(base_name, "words"))
                    \o NormalizedNames(FindAll(base_name, "numbered"))
                    \o NormalizedNames(FindAll(base_name, "team"))
                    \o NormalizedNames(FindAll(base_name, "group"))
                    \o << normalize_text(base_name) >>)

\* SequenceMatcher.find_longest_match on a[alo..ahi] and b[blo..bhi] without
\* junk: the longest common block, the one starting earliest in a and then
\* earliest in b; << 0, 0, 0 >> when the two share no character
find_longest_match(a, b, alo, ahi, blo, bhi) ==
  LET Common(k) ==
        {<< i, j >> \in (alo..(ahi - k + 1)) \X (blo..(bhi - k + 1)) :
           SubSeq(a, i, i + k - 1) = SubSeq(b, j, j + k - 1)}
      K == {k \in 1..Min({ahi - alo + 1, bhi - blo + 1}) : Common(k) # {}}
      size == Max(K)
      i == Min({c[1] : c \in Common(size)})
      j == Min({c[2] : c \in {c \in Common(size) : c[1] = i}})
  IN  IF alo > ahi \/ blo > bhi \/ K = {} THEN << 0, 0, 0 >> ELSE << i, j, size >>

\* the sum of the sizes of SequenceMatcher.get_matching_blocks(): the longest
\* block, then the blocks to its left and to its right
RECURSIVE matching_size(_, _, _, _, _, _)
matching_size(a, b, alo, ahi, blo, bhi) ==
  LET m == find_longest_match(a, b, alo, ahi, blo, bhi)
  IN  IF m[3] = 0 THEN 0
      ELSE m[3] + matching_size(a, b, alo, m[1] - 1, blo, m[2] - 1)
                + matching_size(a, b, m[1] + m[3], ahi, m[2] + m[3], bhi)

similarity_score(a, b) ==
  IF ~Truthy(a) \/ ~Truthy(b) THEN << 0, 1 >>
  ELSE IF a = b THEN << 1, 1 >>
  ELSE << 2 * matching_size(a, b, 1, Len(a), 1, Len(b)), Len(a) + Len(b) >>

\* x < y, x >= y for two quotients
Less(x, y) == x[1] * y[2] < y[1] * x[2]

AtLeast(x, y) == ~Less(x, y)

\* the loops of find_best_match over the (potential name, id entry) pairs
RECURSIVE BestOver(_, _)
BestOver(pairs, best_match) ==
  IF pairs = << >> THEN best_match
  ELSE LET score == similarity_score(pairs[1][1], normalize_text(pairs[1][2]))
           better == [matched_id |-> pairs[1][2], matched_name |-> pairs[1][1],
                      similarity |-> score,
                      suggested_name |->
                        IF AtLeast(score, << 7, 10 >>) /\ Less(score, << 1, 1 >>)
                          THEN pairs[1][2] ELSE best_match.suggested_name]
       IN  BestOver(Tail(pairs),
                    IF Less(best_match.similarity, score) THEN better ELSE best_match)

find_best_match(fname, id_entries) ==
  LET potential_names == extract_group_names_from_filename(extract_content_after_file(fname))
      entries == SelectSeq(id_entries, LAMBDA e : Truthy(e))
      n == Len(entries)
      pairs == [x \in 1..(Len(potential_names) * n) |->
                  << potential_names[((x - 1) \div n) + 1], entries[((x - 1) % n) + 1] >>]
  IN  BestOver(pairs, [matched_id |-> None, matched_name |-> None,
                       similarity |-> << 0, 1 >>, suggested_name |-> None])

get_match_quality(similarity) ==
  IF AtLeast(similarity, << 1, 1 >>) THEN "EXACT"
  ELSE IF AtLeast(similarity, << 8, 10 >>) THEN "EXCELLENT"
  ELSE IF AtLeast(similarity, << 7, 10 >>) THEN "GOOD"
  ELSE IF AtLeast(similarity, << 5, 10 >>) THEN "FAIR"
  ELSE IF AtLeast(similarity, << 3, 10 >>) THEN "POOR"
  ELSE "NO MATCH"

\* f"{similarity:.2f}": the hundredths nearest to the float.  The quotient
\* lies half way between two hundredths only as an odd number of 200ths; as
\* a number of eighths it is the float itself and the even hundredth is
\* taken, and no shorter denominator than 40 gives another half way case.
FormatScore(similarity) ==
  LET q == (100 * similarity[1]) \div similarity[2]
      r == (100 * similarity[1]) % similarity[2]
      h == IF 2 * r > similarity[2] \/ (2 * r = similarity[2] /\ q % 2 = 1) THEN q + 1 ELSE q
  IN  Char(DigitString, (h \div 100) + 1) \o "." \o Char(DigitString, ((h \div 10) % 10) + 1)
        \o Char(DigitString, (h % 10) + 1)

\* the match of one file in main: by the student's group when groups.csv
\* gave mappings, by find_best_match over the id entries otherwise
match_result(fname, id_entries, groups) ==
  LET student_name == extract_student_name_from_filename(fname)
      group_name == find_group_by_student_name(student_name, groups)
  IN  IF groups = << >> THEN find_best_match(fname, id_entries)
      ELSE IF Truthy(student_name) /\ Truthy(group_name)
        THEN [matched_id |-> group_name, matched_name |-> student_name,
              similarity |-> << 1, 1 >>, suggested_name |-> None]
      ELSE [matched_id |-> "NO MATCH",
            matched_name |-> IF Truthy(student_name) THEN student_name ELSE "N/A",
            similarity |-> << 0, 1 >>, suggested_name |-> None]

\* the row main appends to report_data for a file
report_row(fname, match, group_mode) ==
  [filename |-> fname,
   stripped_filename |->
     IF extract_content_after_file(fname) # fname THEN extract_content_after_file(fname)
     ELSE "N/A",
   matched_id |-> IF Truthy(match.matched_id) THEN match.matched_id ELSE "NO MATCH",
   extracted_name |-> IF Truthy(match.matched_name) THEN match.matched_name ELSE "N/A",
   similarity_score |-> FormatScore(match.similarity),
   suggested_spelling |-> IF Truthy(match.suggested_name) THEN match.suggested_name ELSE "N/A",
   match_quality |-> get_match_quality(match.similarity),
   mode |-> IF group_mode THEN "GROUP" ELSE "STANDARD"]

\* main of compare_submissions.py: the matches.csv it writes for the files
\* of the folder, the id entries fetched from the sheet and the mappings of
\* groups.csv; without mappings and id entries it returns before writing
compare_submissions_main(listing, id_entries, groups) ==
  IF groups = << >> /\ id_entries = << >> THEN [exists |-> FALSE, rows |-> << >>]
  ELSE [exists |-> TRUE,
        rows |-> [i \in 1..Len(listing) |->
                    report_row(listing[i], match_result(listing[i], id_entries, groups),
                               groups # << >>)]]

(***************************************************************************)
(* Bounds and the inputs drawn                                             *)
(***************************************************************************)
\* rows of the roster sheet
MaxRows == 2

\* files in the submissions folder
MaxFiles == 2

\* replacements of groups.csv or matches.csv while a run is in progress
MaxEdits == 1

\* runs of the program over the same folder and sheet
MaxRuns == 2

\* API calls that raise, over all runs
MaxFaults == 1

RECURSIVE Pick(_, _, _)
Pick(list, S, i) ==
  IF i > Len(list) THEN << >>
  ELSE (IF i \in S THEN << list[i] >> ELSE << >>) \o Pick(list, S, i + 1)

Folders ==
  {Pick(FileListing, S, 1) :
     S \in {T \in SUBSET (1..Len(FileListing)) : Cardinality(T) >= 1 /\ Cardinality(T) <= MaxFiles}}

AbsentFile == [exists |-> FALSE, rows |-> << >>]

GroupsFiles ==
  { AbsentFile,
    [exists |-> TRUE,
     rows |-> << [first |-> "Jane", last |-> "Doe", group |-> "GroupY"],
                 [first |-> "John", last |-> "Smith", group |-> "GroupX"] >>] }

MatchesFiles ==
  { AbsentFile,
    [exists |-> TRUE,
     rows |-> << [filename |-> JaneFile, matched_id |-> "GroupX", similarity_score |-> "0.85"],
                 [filename |-> JohnFile, matched_id |-> "GroupX", similarity_score |-> "0.70"],
                 [filename |-> AnnFile, matched_id |-> "GroupY", similarity_score |-> "0.69"] >>] }

\* the id, first name, last name and link cells of one sheet row: a blank
\* row, a row of blanks only, a student without a link and a group with
\* or without one
RosterRows ==
  { [id |-> "", first |-> "", last |-> "", link |-> ""],
    [id |-> " ", first |-> "", last |-> "", link |-> " "],
    [id |-> "816012345", first |-> "John", last |-> "Smith", link |-> ""] }
  \cup { [id |-> "GroupX", first |-> "Jane", last |-> "Doe", link |-> l] :
           l \in {"", "Open File"} }

\* sheets: every row sequence in which no identity appears twice
Sheets ==
  UNION { {sh \in [1..n -> RosterRows] :
             \A i, j \in 1..n : (i # j /\ Strip(sh[i].id) # "") => sh[i].id # sh[j].id} :
          n \in 0..MaxRows }

(***************************************************************************)
(* State                                                                   *)
(***************************************************************************)
VARIABLES
  program,            \* "uploader" (uploader.py) or "app" (app.py)
  groups_csv,         \* groups.csv on disk
  matches_csv,        \* matches.csv on disk
  edits,              \* times groups.csv or matches.csv were replaced during a run
  folder,             \* os.listdir of the submissions folder
  sheet_id_column,          \* the sheet's id column
  sheet_first_column,        \* the sheet's first name column
  sheet_last_column,         \* the sheet's last name column
  sheet_link_column,        \* the sheet's link column
  pc,                 \* "start", "fetch", "loop", "done"
  run,                \* number of the current run
  groups_data,
  GROUP_MODE,
  filename_matches,
  ids,
  first_names,
  last_names,
  links,
  cursor,             \* files of the folder already taken by the for loop
  filename,           \* the loop variable
  row_index,
  match_method,
  matched_group,
  group_name_to_write,
  files_uploaded_successfully,
  files_failed_to_upload,
  skipped_files,
  uploaded_ids,
  calls,              \* the API calls issued for the file taken last
  issued,             \* every API call issued in the current run
  claimed,            \* the (label, row) pairs of the rows claimed in the current run
  ids_before,         \* ids as the file taken last found it
  linked_before,      \* rows whose link cell an earlier run wrote
  unlabelled_before,  \* (row, label) of the id writes that raised in an earlier run
  faults,             \* API calls that raised so far
  call,               \* a function of the program called on its own: its name and arguments
  returned            \* << >> before the call returns, << value >> after

vars ==
  << program, groups_csv, matches_csv, edits, folder, sheet_id_column, sheet_first_column, sheet_last_column,
     sheet_link_column, pc, run, groups_data, GROUP_MODE, filename_matches, ids,
     first_names, last_names, links, cursor, filename, row_index, match_method,
     matched_group, group_name_to_write, files_uploaded_successfully, files_failed_to_upload,
     skipped_files, uploaded_ids, calls, issued, claimed, ids_before,
     linked_before, unlabelled_before, faults, call, returned >>

\* the call of a single function and its result
bench == << call, returned >>

disk == << program, groups_csv, matches_csv, edits, folder >>

sheet == << sheet_id_column, sheet_first_column, sheet_last_column, sheet_link_column >>

roster == << ids, first_names, last_names, links >>

loaded == << groups_data, GROUP_MODE, filename_matches >>

locals ==
  << filename, row_index, match_method, matched_group, group_name_to_write, calls, ids_before >>

counters ==
  << files_uploaded_successfully, files_failed_to_upload, skipped_files, uploaded_ids >>

\* the locals and counters as the code sets them before the for loop
FreshRun ==
  /\ ids = << >>
  /\ first_names = << >>
  /\ last_names = << >>
  /\ links = << >>
  /\ cursor = 0
  /\ filename = None
  /\ row_index = NoRow
  /\ match_method = ""
  /\ matched_group = None
  /\ group_name_to_write = None
  /\ files_uploaded_successfully = 0
  /\ files_failed_to_upload = << >>
  /\ skipped_files = << >>
  /\ uploaded_ids = << >>
  /\ calls = << >>
  /\ issued = {}
  /\ claimed = << >>
  /\ ids_before = << >>

Init ==
  /\ program \in {"uploader", "app"}
  /\ groups_csv \in GroupsFiles
  /\ matches_csv \in MatchesFiles
  /\ edits = 0
  /\ folder \in Folders
  /\ \E sh \in Sheets :
       /\ sheet_id_column = [i \in 1..Len(sh) |-> sh[i].id]
       /\ sheet_first_column = [i \in 1..Len(sh) |-> sh[i].first]
       /\ sheet_last_column = [i \in 1..Len(sh) |-> sh[i].last]
       /\ sheet_link_column = [i \in 1..Len(sh) |-> sh[i].link]
  /\ pc = "start"
  /\ run = 1
  /\ groups_data = << >>
  /\ GROUP_MODE = FALSE
  /\ filename_matches = << >>
  /\ FreshRun
  /\ linked_before = {}
  /\ unlabelled_before = {}
  /\ faults = 0
  /\ call = [fn |-> "main"]
  /\ returned = << >>

(***************************************************************************)
(* Start of a run                                                          *)
(***************************************************************************)
\* uploader.py loads both files once, when the module is loaded
uploader_load ==
  /\ pc = "start"
  /\ program = "uploader"
  /\ groups_data' = load_groups_from_csv(groups_csv)
  /\ GROUP_MODE' = (Len(groups_data') > 0)
  /\ filename_matches' = load_matches_from_csv(matches_csv)
  /\ pc' = "fetch"
  /\ UNCHANGED << bench, disk, sheet, run, roster, cursor, locals, counters, issued, claimed,
                  linked_before, unlabelled_before, faults >>

\* app.py: the upload button hands over to upload_files
start_upload ==
  /\ pc = "start"
  /\ program = "app"
  /\ pc' = "fetch"
  /\ UNCHANGED << bench, disk, sheet, run, loaded, roster, cursor, locals, counters, issued,
                  claimed, linked_before, unlabelled_before, faults >>

\* links = [item[0] for item in result_links.get('values', []) if item]
FetchedLinks(column) == NonEmptyItems(SheetValues(column))

\* the four range reads before the for loop
FetchRoster ==
  /\ pc = "fetch"
  /\ ids' = PaddedColumn(SheetValues(sheet_id_column))
  /\ first_names' = PaddedColumn(SheetValues(sheet_first_column))
  /\ last_names' = PaddedColumn(SheetValues(sheet_last_column))
  /\ links' = FetchedLinks(sheet_link_column)
  /\ pc' = "loop"
  /\ UNCHANGED << bench, disk, sheet, run, loaded, cursor, locals, counters, issued, claimed,
                  linked_before, unlabelled_before, faults >>

(***************************************************************************)
(* Resolution of one file to a row                                         *)
(* A resolution is the locals row_index, match_method, matched_group and   *)
(* group_name_to_write and the list ids after the matching of one file.    *)
(***************************************************************************)
NoResolution(id_list) ==
  [row_index |-> NoRow, match_method |-> "", matched_group |-> None,
   group_name_to_write |-> None, ids |-> id_list]

IsBlankId(id_entry) == id_entry = "" \/ Strip(id_entry) = ""

\* a row creation that passes over the blank rows and always appends
ResolveGroup_appends(id_list, label, match_source) ==
  IF ListIndex(id_list, label) # NoRow
    THEN [row_index |-> ListIndex(id_list, label),
          match_method |-> "group mode " \o match_source \o " match",
          matched_group |-> label,
          group_name_to_write |-> None,
          ids |-> id_list]
    ELSE [row_index |-> Len(id_list),
          match_method |-> "group mode extended row",
          matched_group |-> label,
          group_name_to_write |-> label,
          ids |-> Append(id_list, label)]

\* a row creation that leaves the in-memory ids as they were
ResolveGroup_forgets(id_list, label, match_source) ==
  LET E == {i \in 1..Len(id_list) : IsBlankId(id_list[i])}
  IN  IF ListIndex(id_list, label) # NoRow
        THEN [row_index |-> ListIndex(id_list, label),
              match_method |-> "group mode " \o match_source \o " match",
              matched_group |-> label,
              group_name_to_write |-> None,
              ids |-> id_list]
      ELSE [row_index |-> IF E # {} THEN Min(E) - 1 ELSE Len(id_list),
            match_method |-> "group mode new row",
            matched_group |-> label,
            group_name_to_write |-> label,
            ids |-> id_list]

\* a row creation that takes the first row of the sheet, blank or not
ResolveGroup_overwrites(id_list, label, match_source) ==
  IF ListIndex(id_list, label) # NoRow
    THEN [row_index |-> ListIndex(id_list, label),
          match_method |-> "group mode " \o match_source \o " match",
          matched_group |-> label,
          group_name_to_write |-> None,
          ids |-> id_list]
  ELSE IF id_list # << >>
    THEN [row_index |-> 0,
          match_method |-> "group mode new row",
          matched_group |-> label,
          group_name_to_write |-> label,
          ids |-> [id_list EXCEPT ![1] = label]]
  ELSE [row_index |-> Len(id_list),
        match_method |-> "group mode extended row",
        matched_group |-> label,
        group_name_to_write |-> label,
        ids |-> Append(id_list, label)]

\* group mode: the row of a label, claimed when the label is not in ids
ResolveGroup(id_list, label, match_source) ==
  LET E == {i \in 1..Len(id_list) : IsBlankId(id_list[i])}
  IN  IF ListIndex(id_list, label) # NoRow
        THEN [row_index |-> ListIndex(id_list, label),
              match_method |-> "group mode " \o match_source \o " match",
              matched_group |-> label,
              group_name_to_write |-> None,
              ids |-> id_list]
      ELSE IF E # {}
        THEN [row_index |-> Min(E) - 1,
              match_method |-> "group mode new row",
              matched_group |-> label,
              group_name_to_write |-> label,
              ids |-> [id_list EXCEPT ![Min(E)] = label]]
      ELSE [row_index |-> Len(id_list),
            match_method |-> "group mode extended row",
            matched_group |-> label,
            group_name_to_write |-> label,
            ids |-> Append(id_list, label)]

\* a precomputed match that creates the row of a label absent from ids
CsvStep_creates(name, id_list, matches) ==
  IF ~DictHas(matches, name) THEN NoResolution(id_list)
  ELSE [row_index |-> IF ListIndex(id_list, DictGet(matches, name)) # NoRow
                        THEN ListIndex(id_list, DictGet(matches, name))
                        ELSE Len(id_list),
        match_method |-> "CSV match",
        matched_group |-> DictGet(matches, name),
        group_name_to_write |-> None,
        ids |-> IF ListIndex(id_list, DictGet(matches, name)) # NoRow
                  THEN id_list
                  ELSE Append(id_list, DictGet(matches, name))]

\* the precomputed match of standard mode
CsvStep(name, id_list, matches) ==
  IF ~DictHas(matches, name) THEN NoResolution(id_list)
  ELSE IF ListIndex(id_list, DictGet(matches, name)) # NoRow
    THEN [row_index |-> ListIndex(id_list, DictGet(matches, name)),
          match_method |-> "CSV match",
          matched_group |-> DictGet(matches, name),
          group_name_to_write |-> None,
          ids |-> id_list]
  ELSE [NoResolution(id_list) EXCEPT !.matched_group = DictGet(matches, name)]

StudentIdStep(res, file_id) ==
  IF res.row_index = NoRow /\ Truthy(file_id) /\ ListIndex(res.ids, file_id) # NoRow
    THEN [res EXCEPT !.row_index = ListIndex(res.ids, file_id),
                     !.match_method = "student ID"]
    ELSE res

TakeNameMatch(res, first_name, firsts, lasts, name_match_index) ==
  IF /\ res.row_index = NoRow
     /\ Truthy(first_name)
     /\ (firsts # << >> \/ lasts # << >>)
     /\ name_match_index # NoRow
    THEN [res EXCEPT !.row_index = name_match_index, !.match_method = "name match"]
    ELSE res

NameStep(res, names, firsts, lasts) ==
  TakeNameMatch(res, names[1], firsts, lasts, find_match_by_names(names[1], names[2], firsts, lasts))

TakeGroupNameMatch(res, group_match_index) ==
  IF res.row_index = NoRow /\ group_match_index # NoRow
    THEN [res EXCEPT !.row_index = group_match_index,
                     !.match_method = "group name match with ID"]
    ELSE res

GroupNameStep(res, name) == TakeGroupNameMatch(res, find_match_by_group_name(name, res.ids))

\* uploader.py, group mode: the label the membership index gives a file
\* whose names are fn_first and fn_last and whose simple name is simple_name
group_from_mappings(by_full, simple_name, groups) ==
  IF Truthy(by_full) THEN by_full
  ELSE IF Truthy(simple_name) THEN find_group_by_student_name(simple_name, groups)
  ELSE by_full

\* uploader.py, group mode: the label of a file, e what the extraction
\* functions return for it
uploader_matched_group(name, e, matches, groups) ==
  IF DictHas(matches, name)
    THEN [label |-> DictGet(matches, name), source |-> "CSV"]
    ELSE [label |->
            group_from_mappings(
              IF Truthy(e.names[1])
                THEN find_group_by_student_name(
                       Strip(e.names[1] \o " "
                               \o (IF Truthy(e.names[2]) THEN e.names[2] ELSE "")),
                       groups)
                ELSE None,
              e.simple_name, groups),
          source |-> "group_mappings"]

\* a cascade that tries the name match before the student ID
Cascade_name_first(first, name, e, firsts, lasts) ==
  GroupNameStep(StudentIdStep(NameStep(first, e.names, firsts, lasts), e.file_id), name)

\* the four strategies of standard mode, after the first has given first
Cascade(first, name, e, firsts, lasts) ==
  GroupNameStep(NameStep(StudentIdStep(first, e.file_id), e.names, firsts, lasts), name)

GroupOrNone(id_list, g) ==
  IF Truthy(g.label) THEN ResolveGroup(id_list, g.label, g.source) ELSE NoResolution(id_list)

\* uploader.py: the if GROUP_MODE / else of the for loop
uploader_resolve(name, e, id_list, firsts, lasts, mode, matches, groups) ==
  IF mode
    THEN GroupOrNone(id_list, uploader_matched_group(name, e, matches, groups))
    ELSE Cascade(CsvStep(name, id_list, matches), name, e, firsts, lasts)

\* app.py: only the precomputed match is inside the if GROUP_MODE / else;
\* the three later steps follow it in either mode
app_resolve(name, e, id_list, firsts, lasts, mode, matches) ==
  Cascade(IF mode
            THEN IF DictHas(matches, name)
                   THEN ResolveGroup(id_list, DictGet(matches, name), "CSV")
                   ELSE NoResolution(id_list)
            ELSE CsvStep(name, id_list, matches),
          name, e, firsts, lasts)

(***************************************************************************)
(* The gate, the upload and the write-back of one file                     *)
(***************************************************************************)
\* a gate that compares the link without stripping it
LinkExists_unstripped(index, link_list) ==
  index < Len(link_list) /\ link_list[index + 1] # ""

\* a gate that takes a row beyond the end of links as linked
LinkExists_beyond_end(index, link_list) ==
  index >= Len(link_list) \/ Strip(link_list[index + 1]) # ""

\* row_index < len(links) and links[row_index].strip()
LinkExists(index, link_list) ==
  index < Len(link_list) /\ Strip(link_list[index + 1]) # ""

\* the hyperlink formula for the Drive file created from a local file
HyperlinkFormula(name) ==
  "=HYPERLINK(\"https://drive.google.com/file/d/" \o name \o "/view\", \"Open File\")"

\* what a cell shows, and a range read returns, after a write with
\* valueInputOption="USER_ENTERED": the label of a hyperlink formula
DisplayedValue(value) ==
  IF MatchesAt(value, 1, "=HYPERLINK(") THEN "Open File" ELSE value

\* a try block that writes the link before it grants the permission
CallOrder_link_first(writes_id) ==
  << "upload", "link_write", "permission" >> \o (IF writes_id THEN << "id_write" >> ELSE << >>)

\* the calls of the try block, in the order the code issues them
CallOrder(writes_id) ==
  << "upload", "permission", "link_write" >> \o (IF writes_id THEN << "id_write" >> ELSE << >>)

\* the API calls that may raise; "none" lets every call succeed
Faults == {"none", "upload", "permission", "link_write", "id_write"}

\* a try block that starts again from the upload after a call has raised
CallsIssued_retries(res, name, writes_id, fault) ==
  LET order == CallOrder(writes_id)
      last == IF fault = "none" THEN Len(order)
              ELSE CHOOSE i \in 1..Len(order) : order[i] = fault
      attempt(ok) ==
        [i \in 1..last |->
           [op |-> order[i],
            file |-> name,
            row |-> res.row_index,
            value |-> IF order[i] = "link_write" THEN HyperlinkFormula(name)
                      ELSE IF order[i] = "id_write" THEN res.group_name_to_write
                      ELSE "",
            ok |-> ok \/ order[i] # fault]]
  IN  IF fault = "none" THEN attempt(TRUE) ELSE attempt(FALSE) \o attempt(TRUE)

\* the calls issued when the call named by fault raises: every call before
\* it succeeds, it fails, and the except clause skips the rest
CallsIssued(res, name, writes_id, fault) ==
  LET order == CallOrder(writes_id)
      last == IF fault = "none" THEN Len(order)
              ELSE CHOOSE i \in 1..Len(order) : order[i] = fault
  IN  [i \in 1..last |->
         [op |-> order[i],
          file |-> name,
          row |-> res.row_index,
          value |-> IF order[i] = "link_write" THEN HyperlinkFormula(name)
                    ELSE IF order[i] = "id_write" THEN res.group_name_to_write
                    ELSE "",
          ok |-> order[i] # fault]]

Succeeded(cs, op) == \E i \in 1..Len(cs) : cs[i].op = op /\ cs[i].ok

\* a success counted as soon as the upload call has returned
Completed_after_upload(cs, fault) == cs # << >> /\ cs[1].ok

\* the try block ran to its end: no call of it raised, so the statements
\* after the last call (the success counter, uploaded_ids) were reached
Completed(cs, fault) == cs # << >> /\ fault = "none"

\* the body of the for loop after the row of the file has been resolved
FinishFile(name, res, mode, fault) ==
  LET writes_id == mode /\ Truthy(res.group_name_to_write)
      skipped == res.row_index = NoRow
      linked == ~skipped /\ LinkExists(res.row_index, links)
      cs == IF skipped \/ linked THEN << >> ELSE CallsIssued(res, name, writes_id, fault)
      uploaded_id ==
        IF writes_id THEN res.group_name_to_write
        ELSE IF res.row_index < Len(res.ids) THEN res.ids[res.row_index + 1]
        ELSE "Unknown"
  IN  /\ fault # "none" => (~skipped /\ ~linked /\ faults < MaxFaults)
      /\ fault = "id_write" => writes_id
      /\ filename' = name
      /\ cursor' = cursor + 1
      /\ ids' = res.ids
      /\ row_index' = res.row_index
      /\ match_method' = res.match_method
      /\ matched_group' = res.matched_group
      /\ ids_before' = ids
      /\ group_name_to_write' = res.group_name_to_write
      /\ calls' = cs
      /\ issued' = issued \cup {cs[i] : i \in 1..Len(cs)}
      /\ claimed' =
           IF Truthy(res.group_name_to_write)
             THEN Append(claimed, << res.group_name_to_write, res.row_index >>)
             ELSE claimed
      /\ faults' = IF fault = "none" THEN faults ELSE faults + 1
      /\ skipped_files' = IF skipped THEN Append(skipped_files, name) ELSE skipped_files
      /\ sheet_link_column' =
           IF Succeeded(cs, "link_write")
             THEN WriteCell(sheet_link_column, res.row_index,
                            DisplayedValue(HyperlinkFormula(name)))
             ELSE sheet_link_column
      /\ sheet_id_column' =
           IF Succeeded(cs, "id_write")
             THEN WriteCell(sheet_id_column, res.row_index,
                            DisplayedValue(res.group_name_to_write))
             ELSE sheet_id_column
      /\ files_uploaded_successfully' =
           IF Completed(cs, fault)
             THEN files_uploaded_successfully + 1
             ELSE files_uploaded_successfully
      /\ uploaded_ids' =
           IF Completed(cs, fault)
             THEN Append(uploaded_ids, << uploaded_id, res.row_index >>)
             ELSE uploaded_ids
      /\ files_failed_to_upload' =
           IF fault # "none"
             THEN Append(files_failed_to_upload, << name, fault >>)
             ELSE files_failed_to_upload

\* uploader.py: one iteration of the for loop of main
main_file ==
  /\ pc = "loop"
  /\ program = "uploader"
  /\ cursor < Len(folder)
  /\ \E res \in {uploader_resolve(folder[cursor + 1], Of(folder[cursor + 1]), ids, first_names, last_names,
                                    GROUP_MODE, filename_matches, groups_data)} :
       \E fault \in Faults : FinishFile(folder[cursor + 1], res, GROUP_MODE, fault)
  /\ UNCHANGED << bench, disk, sheet_first_column, sheet_last_column, pc, run, loaded, first_names,
                  last_names, links, linked_before,
                  unlabelled_before >>

\* app.py: one iteration of the for loop of upload_files, which loads
\* groups.csv and matches.csv again for every file
upload_files_file ==
  /\ pc = "loop"
  /\ program = "app"
  /\ cursor < Len(folder)
  /\ groups_data' = app_load_groups_from_csv(groups_csv)
  /\ GROUP_MODE' = (Len(groups_data') > 0)
  /\ filename_matches' = load_matches_from_csv(matches_csv)
  /\ \E res \in {app_resolve(folder[cursor + 1], Of(folder[cursor + 1]), ids, first_names, last_names,
                               GROUP_MODE', filename_matches')} :
       \E fault \in Faults : FinishFile(folder[cursor + 1], res, GROUP_MODE', fault)
  /\ UNCHANGED << bench, disk, sheet_first_column, sheet_last_column, pc, run, first_names, last_names,
                  links, linked_before,
                  unlabelled_before >>

\* the end of the for loop: the summary is written and the run is over
write_summary ==
  /\ pc = "loop"
  /\ cursor = Len(folder)
  /\ pc' = "done"
  /\ UNCHANGED << bench, disk, sheet, run, loaded, roster, cursor, locals, counters, issued,
                  claimed, linked_before, unlabelled_before, faults >>

\* the rows whose link cell the run has written
LinkedRows(cs) == {c.row : c \in {d \in cs : d.op = "link_write" /\ d.ok}}

\* the id writes of the run that raised: their row and the label they carried
UnlabelledRows(cs) == {<< c.row, c.value >> : c \in {d \in cs : d.op = "id_write" /\ ~d.ok}}

\* the operator runs the program again over the same folder and sheet
rerun ==
  /\ pc = "done"
  /\ run < MaxRuns
  /\ run' = run + 1
  /\ pc' = "start"
  /\ linked_before' = linked_before \cup LinkedRows(issued)
  /\ unlabelled_before' = unlabelled_before \cup UnlabelledRows(issued)
  /\ groups_data' = << >>
  /\ GROUP_MODE' = FALSE
  /\ filename_matches' = << >>
  /\ ids' = << >>
  /\ first_names' = << >>
  /\ last_names' = << >>
  /\ links' = << >>
  /\ cursor' = 0
  /\ filename' = None
  /\ row_index' = NoRow
  /\ match_method' = ""
  /\ matched_group' = None
  /\ group_name_to_write' = None
  /\ files_uploaded_successfully' = 0
  /\ files_failed_to_upload' = << >>
  /\ skipped_files' = << >>
  /\ uploaded_ids' = << >>
  /\ calls' = << >>
  /\ issued' = {}
  /\ claimed' = << >>
  /\ ids_before' = << >>
  /\ UNCHANGED << bench, disk, sheet, faults >>

Next ==
  \/ uploader_load
  \/ start_upload
  \/ FetchRoster
  \/ main_file
  \/ upload_files_file
  \/ write_summary
  \/ rerun

Spec == Init /\ [][Next]_vars

(***************************************************************************)
(* The program while somebody edits its source files                       *)
(***************************************************************************)
\* groups.csv, matches.csv or both are replaced between two files of a run
edit_source_files ==
  /\ pc = "loop"
  /\ edits < MaxEdits
  /\ edits' = edits + 1
  /\ groups_csv' \in GroupsFiles
  /\ matches_csv' \in MatchesFiles
  /\ << groups_csv', matches_csv' >> # << groups_csv, matches_csv >>
  /\ UNCHANGED << bench, program, folder, sheet, pc, run, loaded, roster, cursor, locals,
                  counters, issued, claimed, linked_before, unlabelled_before, faults >>

DiskNext ==
  \/ uploader_load
  \/ start_upload
  \/ FetchRoster
  \/ main_file
  \/ upload_files_file
  \/ write_summary
  \/ rerun
  \/ edit_source_files

DiskSpec == Init /\ [][DiskNext]_vars

(***************************************************************************)
(* The functions of the program called on their own                        *)
(* One call per behaviour: the initial state draws the function and its    *)
(* arguments, the action of the function applies it.                       *)
(***************************************************************************)
\* length of the texts given to normalize_name
MaxText == 3

\* a letter of each case and the two separators normalize_name collapses
TextAlphabet == {"a", "B", "-", " "}

\* the texts over TextAlphabet of at most n characters
RECURSIVE Texts(_)
Texts(n) ==
  IF n = 0 THEN {""}
  ELSE LET shorter == Texts(n - 1)
       IN  shorter \cup {t \o c : t \in shorter, c \in TextAlphabet}

normalize_name_calls == {[fn |-> "normalize_name", name |-> t] : t \in Texts(MaxText)}

\* file names with and without the marker, with a student id, another nine
\* digits or eight digits after it, and with different texts around them
IdFilePrefixes == {"Jane Doe_12345_", "816000000_", ""}

IdFileMarkers == {Marker, "submission_"}

IdFileDigits == {"816012345", "123456789", "12345678", ""}

IdFileSuffixes == {"_COMP1600_A1.pdf", ".pdf", " A1.pdf"}

extract_student_id_calls ==
  {[fn |-> "extract_student_id", filename |-> a \o m \o d \o z] :
     a \in IdFilePrefixes, m \in IdFileMarkers, d \in IdFileDigits, z \in IdFileSuffixes}

\* rows of the groups.csv files given to the loaders
MaxIndexRows == 2

\* rows of groups.csv: two members who share a first name, a member whose
\* first name contains another's, a hyphenated first name, a first name
\* with spaces around it and no last name, and a row without a label
IndexRows ==
  { [first |-> "Annabel", last |-> "Lee", group |-> "G1"],
    [first |-> "Ann", last |-> "Lee", group |-> "G2"],
    [first |-> "Ann", last |-> "Kim", group |-> "G3"],
    [first |-> "Mary-Anne", last |-> "Lee", group |-> "G1"],
    [first |-> " Bo ", last |-> "", group |-> "G2"],
    [first |-> "Cy", last |-> "Ray", group |-> ""] }

IndexFiles ==
  {AbsentFile} \cup
  UNION { {[exists |-> TRUE, rows |-> rows] : rows \in [1..n -> IndexRows]} : n \in 1..MaxIndexRows }

load_groups_from_csv_calls ==
  {[fn |-> f, file |-> file] :
     f \in {"load_groups_from_csv", "app_load_groups_from_csv"}, file \in IndexFiles}

\* the names looked up: as the callers pass them, never empty and stripped
LookupNames == {"Ann", "Ann Lee", "Lee", "Annabel Lee", "Mary-Anne Lee", "Bo", "Zed Ng"}

\* the indexes looked up are those the loader builds
find_group_by_student_name_calls ==
  {[fn |-> "find_group_by_student_name", student_name |-> n,
    groups_data |-> load_groups_from_csv(file)] : n \in LookupNames, file \in IndexFiles}

\* rows of the matches.csv files given to the loader
MaxCacheRows == 2

\* rows of matches.csv: two files, two labels, the NO MATCH label and no
\* label, a score at the threshold, one below it and one that is no number
CacheRows ==
  [filename : {"a.pdf", "b.pdf"},
   matched_id : {"G1", "G2", "NO MATCH", ""},
   similarity_score : {"0.70", "0.69", "abc"}]

CacheFiles ==
  {AbsentFile} \cup
  UNION { {[exists |-> TRUE, rows |-> rows] : rows \in [1..n -> CacheRows]} : n \in 1..MaxCacheRows }

load_matches_from_csv_calls == {[fn |-> "load_matches_from_csv", file |-> file] : file \in CacheFiles}

\* rows of the name columns given to find_match_by_names
MaxNameRows == 2

\* the first and last name cells of a sheet row: the same name in another
\* case, a longer and a different last name, a blank last name, a blank
\* first name, a blank row and another first name
NameRows ==
  { << "Mary", "Smith" >>, << "mary", "Smith Jones" >>, << "Mary", "Lee" >>, << "Mary", "" >>,
    << "", "Smith" >>, << "", "" >>, << "Ann", "Smith" >> }

\* the first name column and the last name column, which the range read
\* may return shorter
NameColumns ==
  UNION { {[firsts |-> [i \in 1..n |-> rows[i][1]], lasts |-> [i \in 1..k |-> rows[i][2]]] :
             rows \in [1..n -> NameRows], k \in 0..n} : n \in 0..MaxNameRows }

\* the names extract_names returns: words of the file name, or None
find_match_by_names_calls ==
  {[fn |-> "find_match_by_names", first_name |-> f, last_name |-> l,
    sheet_first_names |-> c.firsts, sheet_last_names |-> c.lasts] :
     f \in {"Mary", None}, l \in {"Smith", "Smith-Jones", None}, c \in NameColumns}

\* entries of the id lists given to find_match_by_group_name
MaxGuessIds == 2

\* id cells: short and long texts that equal, contain or are contained in
\* a candidate of a file of GuessFiles, and a blank cell
GuessIds == {"A1", "A12", "ro", "Group", "X", "xy", ""}

find_match_by_group_name_calls ==
  {[fn |-> "find_match_by_group_name", filename |-> f, sheet_ids |-> l] :
     f \in GuessFiles, l \in UNION {[1..n -> GuessIds] : n \in 0..MaxGuessIds}}

\* characters of the texts given to similarity_score
MaxScoreText == 4

ScoreAlphabet == {"a", "b"}

\* the texts over ScoreAlphabet of at most n characters
RECURSIVE ScoreTexts(_)
ScoreTexts(n) ==
  IF n = 0 THEN {""}
  ELSE LET shorter == ScoreTexts(n - 1)
       IN  shorter \cup {t \o c : t \in shorter, c \in ScoreAlphabet}

similarity_score_calls ==
  {[fn |-> "similarity_score", a |-> x, b |-> y] :
     x \in ScoreTexts(MaxScoreText), y \in ScoreTexts(MaxScoreText)}

\* entries of the id lists given to find_best_match
MaxReportIds == 2

\* a file named by its student and one as Moodle names it
ReportFiles == {"smith.pdf", "Ann Lee_31_assignsubmission_file_smith.pdf"}

\* id entries: the name in the file, two spellings close to it, a part of
\* the student's name, an unrelated name and an empty entry
ReportIds == {"Smith", "Smyth", "Smithe", "Lee", "Jones", ""}

find_best_match_calls ==
  {[fn |-> "find_best_match", filename |-> f, id_entries |-> l] :
     f \in ReportFiles, l \in UNION {[1..n -> ReportIds] : n \in 0..MaxReportIds}}

\* files in the folder given to the report generator
MaxReportFiles == 1

\* the files compared: those of ReportFiles and one whose name is close to
\* an id entry without reaching a similarity of 0.7
CompareFiles == ReportFiles \cup {"robertsmith.pdf"}

\* id entries as get_id_entries returns them, none blank
CompareIds == {"Smith", "Smyth", "Roberta Smee", "Jones"}

\* the mappings of groups.csv: none, or those of one member
CompareGroups == {<< >>, << << "ann lee", "G1" >>, << "ann", "G1" >>, << "lee", "G1" >> >>}

compare_submissions_main_calls ==
  {[fn |-> "compare_submissions_main", files |-> l, id_entries |-> e, groups_data |-> g] :
     l \in UNION {[1..n -> CompareFiles] : n \in 0..MaxReportFiles},
     e \in UNION {[1..n -> CompareIds] : n \in 0..MaxReportIds},
     g \in CompareGroups}

FunctionCalls ==
  normalize_name_calls \cup extract_student_id_calls \cup load_groups_from_csv_calls
    \cup find_group_by_student_name_calls \cup load_matches_from_csv_calls
    \cup find_match_by_names_calls \cup find_match_by_group_name_calls
    \cup similarity_score_calls \cup find_best_match_calls
    \cup compare_submissions_main_calls

\* the program before its run, with no file and an empty sheet
Idle ==
  /\ program = "uploader"
  /\ groups_csv = AbsentFile
  /\ matches_csv = AbsentFile
  /\ edits = 0
  /\ folder = << AnnFile >>
  /\ sheet_id_column = << >>
  /\ sheet_first_column = << >>
  /\ sheet_last_column = << >>
  /\ sheet_link_column = << >>
  /\ pc = "start"
  /\ run = 1
  /\ groups_data = << >>
  /\ GROUP_MODE = FALSE
  /\ filename_matches = << >>
  /\ FreshRun
  /\ linked_before = {}
  /\ unlabelled_before = {}
  /\ faults = 0

FunctionInit ==
  /\ Idle
  /\ call \in FunctionCalls
  /\ returned = << >>

\* the state the program itself is in during the call of a function
program_state ==
  << disk, sheet, pc, run, loaded, roster, cursor, locals, counters, issued, claimed,
     linked_before, unlabelled_before, faults >>

call_normalize_name ==
  /\ call.fn = "normalize_name"
  /\ returned = << >>
  /\ returned' = << normalize_name(call.name) >>
  /\ UNCHANGED << call, program_state >>

call_extract_student_id ==
  /\ call.fn = "extract_student_id"
  /\ returned = << >>
  /\ returned' = << extract_student_id(call.filename) >>
  /\ UNCHANGED << call, program_state >>

call_load_groups_from_csv ==
  /\ call.fn = "load_groups_from_csv"
  /\ returned = << >>
  /\ returned' = << load_groups_from_csv(call.file) >>
  /\ UNCHANGED << call, program_state >>

call_app_load_groups_from_csv ==
  /\ call.fn = "app_load_groups_from_csv"
  /\ returned = << >>
  /\ returned' = << app_load_groups_from_csv(call.file) >>
  /\ UNCHANGED << call, program_state >>

call_find_group_by_student_name ==
  /\ call.fn = "find_group_by_student_name"
  /\ returned = << >>
  /\ returned' = << find_group_by_student_name(call.student_name, call.groups_data) >>
  /\ UNCHANGED << call, program_state >>

call_load_matches_from_csv ==
  /\ call.fn = "load_matches_from_csv"
  /\ returned = << >>
  /\ returned' = << load_matches_from_csv(call.file) >>
  /\ UNCHANGED << call, program_state >>

call_find_match_by_names ==
  /\ call.fn = "find_match_by_names"
  /\ returned = << >>
  /\ returned' = << find_match_by_names(call.first_name, call.last_name,
                                        call.sheet_first_names, call.sheet_last_names) >>
  /\ UNCHANGED << call, program_state >>

call_find_match_by_group_name ==
  /\ call.fn = "find_match_by_group_name"
  /\ returned = << >>
  /\ returned' = << find_match_by_group_name(call.filename, call.sheet_ids) >>
  /\ UNCHANGED << call, program_state >>

call_similarity_score ==
  /\ call.fn = "similarity_score"
  /\ returned = << >>
  /\ returned' = << similarity_score(call.a, call.b) >>
  /\ UNCHANGED << call, program_state >>

call_find_best_match ==
  /\ call.fn = "find_best_match"
  /\ returned = << >>
  /\ returned' = << find_best_match(call.filename, call.id_entries) >>
  /\ UNCHANGED << call, program_state >>

call_compare_submissions_main ==
  /\ call.fn = "compare_submissions_main"
  /\ returned = << >>
  /\ returned' = << compare_submissions_main(call.files, call.id_entries, call.groups_data) >>
  /\ UNCHANGED << call, program_state >>

FunctionNext ==
  \/ call_normalize_name
  \/ call_extract_student_id
  \/ call_load_groups_from_csv
  \/ call_app_load_groups_from_csv
  \/ call_find_group_by_student_name
  \/ call_load_matches_from_csv
  \/ call_find_match_by_names
  \/ call_find_match_by_group_name
  \/ call_similarity_score
  \/ call_find_best_match
  \/ call_compare_submissions_main

FunctionSpec == FunctionInit /\ [][FunctionNext]_vars

(***************************************************************************)
(* Properties                                                              *)
(***************************************************************************)
\* a string of whitespace only, the empty string included
IsBlank(s) == \A k \in 1..Len(s) : IsSpace(Char(s, k))

\* the calls of the current run of one kind
IssuedOf(op) == {c \in issued : c.op = op}

\* those of them that returned
DoneOf(op) == {c \in IssuedOf(op) : c.ok}

\* C1: a row whose link cell an earlier run wrote gets no upload and no
\* link write in a later run over the same folder and sheet.
C1_NoSecondUpload ==
  \A c \in DoneOf("upload") \cup DoneOf("link_write") : c.row \notin linked_before

\* C2: within one run every row gets the upload of at most one file and
\* at most one link write.
C2_OneUploadPerRow ==
  /\ \A c, d \in DoneOf("upload") : c.row = d.row => c.file = d.file
  /\ \A c, d \in IssuedOf("link_write") : c.row = d.row => c.file = d.file

\* C3: a file resolved to row index i issues no call when the link list
\* holds a non-blank value at i, and starts with the upload call when the
\* value at i is blank or i is beyond the end of the link list.
C3_UploadGate ==
  (filename # None /\ row_index # NoRow) =>
    LET held == IF row_index + 1 \in DOMAIN links THEN links[row_index + 1] ELSE ""
    IN  IF IsBlank(held)
          THEN calls # << >> /\ calls[1].op = "upload" /\ calls[1].file = filename
          ELSE calls = << >> /\ (\A c \in issued : c.file # filename)

\* a run in which the gate let a file through at a blank value inside the
\* link list and then held back a file at a non-blank one
C3_GateBothWays ==
  /\ filename # None
  /\ row_index # NoRow
  /\ calls = << >>
  /\ \E c \in IssuedOf("upload") : c.row < Len(links) /\ links[c.row + 1] # ""

\* C4: right after the roster read, links[i] is the content of the link
\* cell of the sheet row of ids[i], for every index i of the link list.
C4_ColumnsAligned ==
  (pc = "loop" /\ cursor = 0) =>
    \A i \in 1..Len(links) : links[i] = CellAt(sheet_link_column, i - 1)

\* the indexes of the id entries that are empty or whitespace only
BlankEntries(id_list) == {i \in 1..Len(id_list) : IsBlank(id_list[i])}

\* the last file was matched in group mode to a label
GroupLabelled == filename # None /\ GROUP_MODE /\ matched_group # None /\ matched_group # ""

\* C5: in group mode a label equal to no entry of ids resolves to the
\* lowest empty or whitespace-only entry, which is set to the label, or,
\* without such an entry, is appended and resolves to the old length of
\* ids; either way the label is the label to write back.
C5_RowCreation ==
  (GroupLabelled /\ (\A i \in 1..Len(ids_before) : ids_before[i] # matched_group)) =>
    /\ group_name_to_write = matched_group
    /\ IF BlankEntries(ids_before) # {}
         THEN /\ row_index + 1 \in BlankEntries(ids_before)
              /\ \A j \in BlankEntries(ids_before) : row_index + 1 <= j
              /\ ids = [ids_before EXCEPT ![row_index + 1] = matched_group]
         ELSE /\ row_index = Len(ids_before)
              /\ ids = Append(ids_before, matched_group)

\* a run that claimed a blank row for one label and then, with no blank
\* row left, appended a row for another
C5_NewThenExtended ==
  /\ GroupLabelled
  /\ Len(claimed) = 2
  /\ claimed[1][2] + 1 \in BlankEntries(PaddedColumn(SheetValues(sheet_id_column)))
  /\ claimed[2] = << matched_group, Len(ids_before) >>
  /\ ids = Append(ids_before, matched_group)

\* C6: no label claims a row twice in one run, and a file matched to a
\* label that claimed a row resolves to that row.
C6_OneRowPerLabel ==
  /\ \A i, j \in 1..Len(claimed) : claimed[i][1] = claimed[j][1] => i = j
  /\ GroupLabelled =>
       \A i \in 1..Len(claimed) : claimed[i][1] = matched_group => row_index = claimed[i][2]

\* the second file of a run resolves to the row the first one claimed
\* for the same label, after the upload of the first one failed
C6_SecondFileSameRow ==
  /\ GroupLabelled
  /\ cursor = 2
  /\ claimed = << << matched_group, row_index >> >>
  /\ ids = ids_before
  /\ Len(files_failed_to_upload) = 1
  /\ files_failed_to_upload[1][1] = folder[1]

\* C7: for every row claimed in the run, a link written into the row
\* comes with a write of the claimed label to the id cell of the row.
C7_LabelWrittenBack ==
  \A i \in 1..Len(claimed) :
    (\E c \in DoneOf("link_write") : c.row = claimed[i][2]) =>
      (\E d \in IssuedOf("id_write") : d.row = claimed[i][2] /\ d.value = claimed[i][1])

\* C8: with no group data loaded the matching of a file leaves ids as
\* they were, no write to the id column is issued, and a precomputed
\* label absent from ids gives no row by the precomputed match.
C8_IndividualCreatesNoRow ==
  (filename # None /\ ~GROUP_MODE) =>
    /\ ids = ids_before
    /\ IssuedOf("id_write") = {}
    /\ group_name_to_write = None
    /\ (matched_group # None /\ \A i \in 1..Len(ids_before) : ids_before[i] # matched_group)
         => match_method # "CSV match"

\* a file whose precomputed label is absent from ids and which a later
\* strategy resolves
C8_AbsentLabelFallsThrough ==
  /\ filename # None
  /\ ~GROUP_MODE
  /\ matched_group # None
  /\ \A i \in 1..Len(ids) : ids[i] # matched_group
  /\ row_index # NoRow
  /\ match_method # "CSV match"

\* the rows the four strategies of standard mode give the last file, each
\* taken alone
PrecomputedRow ==
  IF DictHas(filename_matches, filename)
    THEN ListIndex(ids_before, DictGet(filename_matches, filename))
    ELSE NoRow

NumericIdRow ==
  IF Truthy(Of(filename).file_id) THEN ListIndex(ids_before, Of(filename).file_id) ELSE NoRow

NameRow ==
  IF Truthy(Of(filename).names[1]) /\ (first_names # << >> \/ last_names # << >>)
    THEN find_match_by_names(Of(filename).names[1], Of(filename).names[2],
                             first_names, last_names)
    ELSE NoRow

GroupGuessRow == find_match_by_group_name(filename, ids_before)

Skipped(name) == \E k \in 1..Len(skipped_files) : skipped_files[k] = name

\* the last file took the row of a strategy
Took(row, method) == row_index = row /\ match_method = method /\ ~Skipped(filename)

\* C9: in individual mode the row of a file is the row of the first of
\* the four strategies, in their fixed order, that gives one, and the file
\* is skipped exactly when none gives one.
C9_CascadeOrder ==
  (pc = "loop" /\ filename # None /\ ~GROUP_MODE) =>
    IF PrecomputedRow # NoRow THEN Took(PrecomputedRow, "CSV match")
    ELSE IF NumericIdRow # NoRow THEN Took(NumericIdRow, "student ID")
    ELSE IF NameRow # NoRow THEN Took(NameRow, "name match")
    ELSE IF GroupGuessRow # NoRow THEN Took(GroupGuessRow, "group name match with ID")
    ELSE row_index = NoRow /\ Skipped(filename)

\* a file for which the student ID and the name match give different rows
\* and the student ID, the earlier strategy, decides
C9_EarlierStrategyWins ==
  /\ filename # None
  /\ ~GROUP_MODE
  /\ match_method = "student ID"
  /\ NameRow # NoRow
  /\ NameRow # row_index

\* the label the membership index gives the last file
MappedGroup == uploader_matched_group(filename, Of(filename), << >>, groups_data).label

\* C10: in group mode a file without a precomputed match whose extracted
\* name maps to no group resolves to no row and is skipped.
C10_GroupModeNoMatchSkips ==
  (/\ filename # None
   /\ GROUP_MODE
   /\ ~DictHas(filename_matches, filename)
   /\ ~Truthy(MappedGroup)) =>
    row_index = NoRow /\ Skipped(filename)

\* the row a label resolves to from ids_before in group mode: the row of
\* an equal entry, else the lowest blank entry, else a new last row
LabelRow(label) ==
  IF \E i \in 1..Len(ids_before) : ids_before[i] = label
    THEN ListIndex(ids_before, label)
  ELSE IF BlankEntries(ids_before) # {} THEN Min(BlankEntries(ids_before)) - 1
  ELSE Len(ids_before)

\* C11: in group mode a file without a precomputed match whose extracted
\* name (the full name, else the text before the first underscore) has a
\* label in the membership index is matched to that label, and the label
\* resolves to a row as a precomputed label does.
C11_MembershipFallback ==
  (/\ filename # None
   /\ GROUP_MODE
   /\ ~DictHas(filename_matches, filename)
   /\ Truthy(MappedGroup)) =>
    /\ matched_group = MappedGroup
    /\ row_index = LabelRow(MappedGroup)
    /\ ~Skipped(filename)

\* the calls of the current run that raised
RaisedCalls == {c \in issued : ~c.ok}

\* C12: every call that raised is in the failure list with its file and
\* its error, the failure list holds nothing else, the success counter
\* counts exactly the files whose calls all returned, and the run ends
\* only after the for loop has taken every file of the folder.
C12_FailureIsolated ==
  /\ Len(files_failed_to_upload) = Cardinality(RaisedCalls)
  /\ \A c \in RaisedCalls :
       \E i \in 1..Len(files_failed_to_upload) : files_failed_to_upload[i] = << c.file, c.op >>
  /\ files_uploaded_successfully =
       Cardinality({c.file : c \in IssuedOf("upload")} \ {c.file : c \in RaisedCalls})
  /\ pc = "done" => cursor = Len(folder)

\* a finished run in which a call after the upload raised for the first
\* file and the second file was uploaded
C12_FailureThenSuccess ==
  /\ pc = "done"
  /\ cursor = 2
  /\ Len(files_failed_to_upload) = 1
  /\ files_failed_to_upload[1][1] = folder[1]
  /\ files_failed_to_upload[1][2] # "upload"
  /\ files_uploaded_successfully = 1
  /\ \E c \in DoneOf("link_write") : c.file = folder[2]

\* C13: at the end of a run the files counted as uploaded, the files
\* recorded as skipped and the files recorded as failed are together as
\* many as the files the for loop has taken.
C13_CompleteAccounting ==
  pc = "done" =>
    files_uploaded_successfully + Len(skipped_files) + Len(files_failed_to_upload) = cursor

\* the call of a function has returned
Returned(fn) == call.fn = fn /\ returned # << >>

\* a text in canonical form: no upper-case letter, no hyphen, no space at
\* either end and no two spaces in a row
Canonical(t) ==
  /\ \A k \in 1..Len(t) : ~IsUpper(Char(t, k)) /\ Char(t, k) # "-"
  /\ t # "" => (Char(t, 1) # " " /\ Char(t, Len(t)) # " ")
  /\ \A k \in 1..(Len(t) - 1) : ~(Char(t, k) = " " /\ Char(t, k + 1) = " ")

\* C20: what normalize_name returns is in canonical form, and
\* normalize_name returns it unchanged when called on it.
C20_NormalizeCanonical ==
  Returned("normalize_name") =>
    /\ Canonical(returned[1])
    /\ normalize_name(returned[1]) = returned[1]

\* the positions of a file name at which the marker is followed by nine digits
MarkerIds(fname) ==
  {p \in 1..Len(fname) :
     /\ MatchesAt(fname, p, Marker)
     /\ p + Len(Marker) + 8 <= Len(fname)
     /\ AllDigits(SubSeq(fname, p + Len(Marker), p + Len(Marker) + 8))}

\* a file name holds nine digits in a row that start with an institutional prefix
HasPrefixedId(fname) ==
  \E p \in 1..(Len(fname) - 8) :
    SubSeq(fname, p, p + 2) \in IdPrefixes /\ AllDigits(SubSeq(fname, p + 3, p + 8))

\* C19: for a file name with the marker followed by nine digits
\* extract_student_id returns those nine digits, whatever comes before the
\* marker and after the digits; for a file name without that form and
\* without a prefixed nine-digit run it returns None.
C19_StudentIdAfterMarker ==
  Returned("extract_student_id") =>
    IF MarkerIds(call.filename) # {}
      THEN returned[1] = SubSeq(call.filename,
                                Min(MarkerIds(call.filename)) + Len(Marker),
                                Min(MarkerIds(call.filename)) + Len(Marker) + 8)
      ELSE ~HasPrefixedId(call.filename) => returned[1] = None

\* the names of a row of groups.csv that are not empty: the full name, the
\* first name and the last name
RowNames(row) ==
  {Strip(Strip(row.first) \o " " \o Strip(row.last)), Strip(row.first), Strip(row.last)} \ {""}

\* the rows of groups.csv with a label that register a key
RowsOfKey(rows, key) ==
  {j \in 1..Len(rows) :
     Strip(rows[j].group) # "" /\ \E n \in RowNames(rows[j]) : normalize_name(n) = key}

\* the index maps every normalized name of every labelled row to the
\* label of the last row that has the name
IndexOfRows(index, rows) ==
  \A i \in 1..Len(rows) :
    Strip(rows[i].group) # "" =>
      \A n \in RowNames(rows[i]) :
        /\ DictHas(index, normalize_name(n))
        /\ DictGet(index, normalize_name(n))
             = Strip(rows[Max(RowsOfKey(rows, normalize_name(n)))].group)

\* C17: the index a loader builds maps the normalized full name, first
\* name and last name of every row with a label to the label, the last
\* row winning where rows share a key.
C17_IndexConstruction ==
  (Returned("load_groups_from_csv") \/ Returned("app_load_groups_from_csv")) =>
    IndexOfRows(returned[1], call.file.rows)

\* the keys of an index that contain a name or are contained in it
ContainingKeys(index, name) ==
  {i \in 1..Len(index) : Contains(index[i][1], name) \/ Contains(name, index[i][1])}

\* C18: find_group_by_student_name returns the label of the key equal to
\* the lower-cased, stripped name when there is one, else the label of the
\* first key in iteration order that contains the name or is contained in
\* it, else None.
C18_ExactBeforeContainment ==
  Returned("find_group_by_student_name") =>
    LET name == Strip(Lower(call.student_name))
        index == call.groups_data
        equal == {i \in 1..Len(index) : index[i][1] = name}
    IN  IF equal # {} THEN \A i \in equal : returned[1] = index[i][2]
        ELSE IF ContainingKeys(index, name) # {}
          THEN returned[1] = index[Min(ContainingKeys(index, name))][2]
        ELSE returned[1] = None

\* a lookup that returned the label of the equal key although an earlier
\* key with another label contains the name
C18_EqualKeyAfterContainingKey ==
  /\ Returned("find_group_by_student_name")
  /\ \E i, j \in 1..Len(call.groups_data) :
       /\ i < j
       /\ call.groups_data[j][1] = Strip(Lower(call.student_name))
       /\ Contains(call.groups_data[i][1], Strip(Lower(call.student_name)))
       /\ call.groups_data[i][2] # call.groups_data[j][2]
       /\ returned[1] = call.groups_data[j][2]

\* the rows of matches.csv the store is to retain: a file name, a label
\* that is not empty and not NO MATCH, and a score of at least 0.70
RetainedRows(rows) ==
  {i \in 1..Len(rows) :
     /\ Strip(rows[i].filename) # ""
     /\ Strip(rows[i].matched_id) # ""
     /\ Strip(rows[i].matched_id) # "NO MATCH"
     /\ FloatParses(rows[i].similarity_score)
     /\ GoodSimilarity(FloatOf(rows[i].similarity_score))}

\* C14: the store load_matches_from_csv returns holds, under its file
\* name, the label of every row to retain (of the last one for a file name
\* with several) and nothing else, whatever the other rows of the file
\* are, a row whose score is no number included.
C14_StoreFilter ==
  Returned("load_matches_from_csv") =>
    \A i \in 1..Len(call.file.rows) :
      LET fname == Strip(call.file.rows[i].filename)
          kept == {j \in RetainedRows(call.file.rows) : Strip(call.file.rows[j].filename) = fname}
      IN  IF kept = {} THEN ~DictHas(returned[1], fname)
          ELSE /\ DictHas(returned[1], fname)
               /\ DictGet(returned[1], fname) = Strip(call.file.rows[Max(kept)].matched_id)

\* the normalized last name of a call and of row i of its last name column
CallLast == IF Truthy(call.last_name) THEN normalize_name(call.last_name) ELSE ""

SheetLast(i) ==
  IF i <= Len(call.sheet_last_names) THEN normalize_name(call.sheet_last_names[i]) ELSE ""

\* the rows of a call of find_match_by_names whose normalized first name
\* is that of the call and whose last name agrees with that of the call:
\* equal, one of them empty or absent, or one containing the other
NameHits ==
  {i \in 1..Len(call.sheet_first_names) :
     /\ normalize_name(call.sheet_first_names[i]) = normalize_name(call.first_name)
     /\ \/ CallLast = SheetLast(i)
        \/ CallLast = ""
        \/ SheetLast(i) = ""
        \/ Contains(CallLast, SheetLast(i))
        \/ Contains(SheetLast(i), CallLast)}

\* C15: find_match_by_names returns the lowest row whose names agree with
\* the extracted ones, and no row when there is none or when the extracted
\* first name is absent.
C15_FirstNameRowWins ==
  Returned("find_match_by_names") =>
    IF ~Truthy(call.first_name) \/ NameHits = {}
      THEN returned[1] = NoRow
      ELSE returned[1] = Min(NameHits) - 1

\* a call that returned row 0, whose last name only contains the
\* extracted one, although row 1 holds the equal last name
C15_ContainingRowBeforeEqualRow ==
  /\ Returned("find_match_by_names")
  /\ returned[1] = 0
  /\ NameHits = {1, 2}
  /\ SheetLast(1) # CallLast
  /\ SheetLast(1) # ""
  /\ CallLast # ""
  /\ SheetLast(2) = CallLast

\* the normalized candidates of the file of a call of find_match_by_group_name
GuessCandidates == Of(call.filename).norm_groups

\* the normalized id at Python index i of the id list of the call
GuessId(i) == normalize_name(call.sheet_ids[i + 1])

\* C16: the row find_match_by_group_name returns holds an id that equals
\* a candidate of the file, or that is longer than two characters and
\* contains, or is contained in, a candidate longer than two characters.
C16_ShortTokensMatchByEqualityOnly ==
  (Returned("find_match_by_group_name") /\ returned[1] # NoRow) =>
    \E g \in GuessCandidates :
      \/ g = GuessId(returned[1])
      \/ /\ Len(g) > 2
         /\ Len(GuessId(returned[1])) > 2
         /\ \/ Contains(g, GuessId(returned[1]))
            \/ Contains(GuessId(returned[1]), g)

\* a call that passed over row 0, whose id contains a candidate of two
\* characters, and returned row 1, whose id equals that candidate
C16_ShortTokenPassedOver ==
  /\ Returned("find_match_by_group_name")
  /\ returned[1] = 1
  /\ \E g \in GuessCandidates :
       /\ Len(g) <= 2
       /\ g # GuessId(0)
       /\ Contains(GuessId(0), g)
       /\ g = GuessId(1)

\* two similarities are the same number
SameScore(x, y) == x[1] * y[2] = y[1] * x[2]

\* C21: similarity_score(a, b) is similarity_score(b, a) for all texts a and
\* b; it is 1.0 when a equals b and is not empty, and 0.0 when a or b is
\* empty.
C21_SimilaritySymmetric ==
  Returned("similarity_score") =>
    /\ SameScore(returned[1], similarity_score(call.b, call.a))
    /\ (call.a = call.b /\ call.a # "") => SameScore(returned[1], << 1, 1 >>)
    /\ (call.a = "" \/ call.b = "") => SameScore(returned[1], << 0, 1 >>)

\* C22: the match find_best_match returns has a suggested name only when
\* its similarity s satisfies 0.70 <= s < 1.0, and the suggested name is
\* then the matched id.
C22_SuggestedSpelling ==
  (Returned("find_best_match") /\ returned[1].suggested_name # None) =>
    /\ AtLeast(returned[1].similarity, << 7, 10 >>)
    /\ Less(returned[1].similarity, << 1, 1 >>)
    /\ returned[1].suggested_name = returned[1].matched_id

\* the similarity main computed for the file of row i of the report
Computed(i) == match_result(call.files[i], call.id_entries, call.groups_data).similarity

\* the tier of a score by the thresholds 0.80, 0.70 and 0.30
ThresholdTier(score) ==
  IF AtLeast(score, << 8, 10 >>) THEN "EXCELLENT"
  ELSE IF AtLeast(score, << 7, 10 >>) THEN "GOOD"
  ELSE IF AtLeast(score, << 3, 10 >>) THEN "POOR"
  ELSE "NO MATCH"

\* C23: the tier written for a file is excellent for a score >= 0.80, good
\* for 0.70 <= score < 0.80, poor for 0.30 <= score < 0.70 and no match for
\* a score < 0.30.
C23_QualityTier ==
  Returned("compare_submissions_main") =>
    \A i \in 1..Len(returned[1].rows) :
      returned[1].rows[i].match_quality = ThresholdTier(Computed(i))

\* C30: a file is in the store loaded from the matches.csv the report
\* generator wrote only if the similarity computed for it was >= 0.70.
C30_RoundTripAdmitsOnlyGood ==
  Returned("compare_submissions_main") =>
    \A i \in 1..Len(returned[1].rows) :
      DictHas(load_matches_from_csv(returned[1]), Strip(call.files[i]))
        => AtLeast(Computed(i), << 7, 10 >>)

\* C24: the mode, the membership index and the match store are the same
\* for every file of a run: a file taken after the first one of the run
\* leaves them as they were, whatever happened to groups.csv and
\* matches.csv in between.
C24_ModeStability ==
  [][(pc = "loop" /\ cursor >= 1 /\ cursor' = cursor + 1) => loaded' = loaded]_vars

\* the file taken last passed the gate: it has a row and the row has no link
PassedGate == filename # None /\ row_index # NoRow /\ ~LinkExists(row_index, links)

\* C25: for a file that passes the gate the calls are issued in the order
\* upload, permission grant, link write and, in group mode with a claimed
\* label only, id write, each only after the one before it succeeded; the
\* link write and the id write both go to the row of row_index.
C25_WriteOrder ==
  LET order == << "upload", "permission", "link_write", "id_write" >>
      writes_id == GROUP_MODE /\ Truthy(group_name_to_write)
      full == IF writes_id THEN 4 ELSE 3
  IN  /\ PassedGate <=> calls # << >>
      /\ Len(calls) <= full
      /\ \A i \in 1..Len(calls) :
           /\ calls[i].op = order[i]
           /\ i > 1 => calls[i - 1].ok
           /\ (calls[i].ok /\ i < full) => Len(calls) > i
           /\ calls[i].op \in {"link_write", "id_write"} => calls[i].row = row_index
      /\ Succeeded(calls, "link_write") => CellAt(sheet_link_column, row_index) = "Open File"
      /\ Succeeded(calls, "id_write") => CellAt(sheet_id_column, row_index) = group_name_to_write

\* C25 witness: in group mode a file with a claimed label passed the gate
\* and all four calls succeeded.
C25_AllFourCallsIssued ==
  GROUP_MODE /\ Truthy(group_name_to_write) /\ Len(calls) = 4 /\ calls[4].ok

\* C26: whatever the lengths of ids, first_names, last_names and links,
\* every file taken is resolved and gated without an index error: the
\* only failures recorded are API calls that raised; a row index within
\* links is gated by the link of that row, and a row index beyond the end
\* of links is treated as having no link: the upload is attempted.
C26_OutOfRangeIsAbsent ==
  /\ \A i \in 1..Len(files_failed_to_upload) :
       files_failed_to_upload[i][2] \in {"upload", "permission", "link_write", "id_write"}
  /\ (filename # None /\ row_index # NoRow) =>
       /\ row_index >= 0
       /\ row_index >= Len(links) => (calls # << >> /\ calls[1].op = "upload")
       /\ row_index < Len(links) => (calls = << >> <=> Strip(links[row_index + 1]) # "")

\* C26 witness: a file was resolved to a row beyond the end of links and
\* of both name lists, and its upload was attempted.
C26_RowBeyondEveryList ==
  /\ filename # None
  /\ row_index # NoRow
  /\ row_index >= Len(links)
  /\ row_index >= Len(first_names)
  /\ row_index >= Len(last_names)
  /\ row_index >= Len(ids_before)
  /\ calls # << >>

\* C27: when the link write of a group-mode new-row file succeeded and its
\* id write raised in one run, a later run without faults over the same
\* folder and sheet ends with the claimed label in the id cell of that row.
C27_PartialWriteRecovered ==
  (pc = "done" /\ files_failed_to_upload = << >>) =>
    \A u \in unlabelled_before : CellAt(sheet_id_column, u[1]) = u[2]

\* C28: within a run the files of the folder are taken one by one in
\* listing order, each once, and the run ends after the last one; calls
\* are issued only for the file being taken, at most one of them an
\* upload, and none after a call for that file has raised.
C28_NoAutomaticRetry ==
  [][/\ cursor' \in {cursor, cursor + 1, 0}
     /\ (cursor' = 0 /\ cursor # 0) => (pc = "done" /\ run' = run + 1)
     /\ cursor' = cursor + 1 =>
          /\ filename' = folder[cursor + 1]
          /\ issued' = issued \cup {calls'[i] : i \in 1..Len(calls')}
          /\ \A i \in 1..Len(calls') :
               /\ calls'[i].file = filename'
               /\ ~calls'[i].ok => i = Len(calls')
          /\ Cardinality({i \in 1..Len(calls') : calls'[i].op = "upload"}) <= 1
     /\ cursor' = cursor => issued' = issued
     /\ pc' = "done" => cursor' = Len(folder)]_vars

\* C28 witness: a call for the first file of the folder raised and the
\* second file was taken in the same run.
C28_NextFileTakenAfterFault ==
  /\ cursor = 2
  /\ files_failed_to_upload # << >>
  /\ files_failed_to_upload[1][1] = folder[1]
  /\ filename = folder[2]
  /\ calls # << >>

\* C29: at every point of a run no row has been claimed for two different
\* labels, and the row a file claims is a row whose in-memory id entry was
\* blank, or the row after the last one.
C29_ClaimedRowsExclusive ==
  /\ \A i, j \in 1..Len(claimed) : claimed[i][2] = claimed[j][2] => claimed[i][1] = claimed[j][1]
  /\ Truthy(group_name_to_write) =>
       /\ GROUP_MODE
       /\ row_index >= Len(ids_before) \/ IsBlankId(ids_before[row_index + 1])

\* C29 witness: two files of a run claimed rows for two different labels.
C29_TwoLabelsClaimedRows ==
  /\ Len(claimed) = 2
  /\ claimed[1][1] # claimed[2][1]
  /\ \E i \in 1..Len(ids_before) : ~IsBlankId(ids_before[i])
====
